---- MODULE Spec2Model ----
(***************************************************************************)
(* A model of the ReadThatPDF backend: the idempotent notification task    *)
(* (tasks.py send_email_chunk), the per-subject scheduler                  *)
(* (scheduling/scheduler.py, scheduling/validators.py, tasks.py            *)
(* process_scheduled_chunks and create_chunks_and_process) and the LLM     *)
(* rate limiter (rate_limiting/RateLimiter.py).                            *)
(*                                                                         *)
(* The Redis store is modelled as reliable (get/setex/delete succeed) and  *)
(* within the retention time of its keys; the SMTP transport may fail.     *)
(* Each subsystem has its own specification; the variables of the other    *)
(* subsystems keep their initial values there.                             *)
(***************************************************************************)
EXTENDS Integers, Sequences, FiniteSets, TLC

(* ------------------------------ bounds --------------------------------- *)
\* The largest number of chunks a stored chunk set holds in the model.
MaxChunks == 2
\* The number of send_email_chunk task instances.
MaxTasks == 2

Users == {"u1"}
ChunkIdx == 0 .. (MaxChunks - 1)
Keys == Users \X ChunkIdx
Tasks == 1 .. MaxTasks
Firings == {1, 2}
NoData == [absent |-> TRUE]
EmptyBeat == [name \in {} |-> NoData]
NoDispatch == [by |-> "none", user |-> "u1", lo |-> 0, hi |-> 0, id |-> 0]
NoReturn == [op |-> "none"]
IdleFiring == [pc |-> "idle", user |-> "u1", chunks_per_delivery |-> 0, start_index |-> 0,
               current_index |-> 0, end_index |-> 0, processed_count |-> 0, total |-> 0]

VARIABLES
    \* ---- the Redis store and the Celery beat table
    user_chunks,     \* user_chunks:{user_id}: NoData or [total, email]
    user_schedule,   \* user_schedule:{user_id}: NoData or the schedule metadata
    user_progress,   \* user_progress:{user_id}: NoData or [current_index, processed_count, last_task_id]
    beat_schedule,   \* celery_app.conf.beat_schedule: task_name -> entry
    email_sent,      \* the keys email_sent:{user_id}:{chunk_index} that exist
    \* ---- the notification tasks and the transport
    tasks,           \* each send_email_chunk task instance: its position, its Celery retry count, its result
    smtp_sent,       \* per (user, chunk): the number of successful server.sendmail calls
    \* ---- the scheduler's tasks
    firing,          \* each process_scheduled_chunks task instance: its position and its locals
    last_dispatch,   \* the batch last handed to generate_insights.delay
    ret,             \* what the operation that ran last returned
    \* ---- the rate limiter of the Delivery Pipeline
    now,               \* time.time()
    groq_rate_limiter, \* the LLMRateLimiter: daily counters, reset time, the two buckets
    chunk_workers,     \* each process_chunk coroutine: its position and its text
    \* ---- a TokenBucket on its own
    bucket,            \* the TokenBucket: capacity, refill_rate, tokens, last_refill
    bucket_log,        \* history: the tokens consumed and the tokens refilled so far
    \* ---- a call of simple_chunk_text
    seg,               \* its arguments, its locals (current_pos, chunks) and its position
    \* ---- the merge of generate_insights
    user_insights,     \* user_insights:{userId}: the persisted list of insight records
    runs,              \* each generate_insights task instance: its position and its locals
    last_merged        \* history: per chunk index, the task that last persisted a result for it

storeVars == <<user_chunks, user_schedule, user_progress, beat_schedule>>
notifyVars == <<email_sent, tasks, smtp_sent>>
schedVars == <<firing, last_dispatch, ret>>
quotaVars == <<now, groq_rate_limiter, chunk_workers>>
bucketVars == <<bucket, bucket_log>>
segVars == <<seg>>
insightVars == <<user_insights, runs, last_merged>>
vars == <<user_chunks, user_schedule, user_progress, beat_schedule, email_sent, tasks, smtp_sent,
          firing, last_dispatch, ret, now, groq_rate_limiter, chunk_workers, bucket, bucket_log,
          seg, user_insights, runs, last_merged>>

(* ------------------- rate_limiting/RateLimiter.py ----------------------- *)
\* Time is counted in whole ticks; the limits of tasks.py ratelimitconfig are
\* scaled down so that every one of them is reached within MaxTime ticks.
MaxTime == 3
\* The length of a UTC day in ticks (86400 s in _get_next_daily_reset).
DayTicks == 2
DailyRequestLimit == 2
DailyTokenLimit == 150
RequestBurstCapacity == 2
RequestRefillRate == 2
TokenBurstCapacity == 150
TokenRefillRate == 60
\* estimated_completion_tokens as process_chunk passes it (500 in tasks.py).
EstimatedCompletionTokens == 20
\* safety_buffer = 0.1, in percent.
SafetyBufferPct == 10

ratelimitconfig ==
    [daily_request_limit |-> DailyRequestLimit,
     daily_token_limit |-> DailyTokenLimit,
     request_burst_capacity |-> RequestBurstCapacity,
     request_refill_rate |-> RequestRefillRate,
     token_burst_capacity |-> TokenBurstCapacity,
     token_refill_rate |-> TokenRefillRate,
     safety_buffer_pct |-> SafetyBufferPct]

\* The process_chunk coroutines of a batch.
Workers == {1, 2}
\* Texts are told apart by their length only; one length keeps the bucket
\* levels few (its estimate, 31, has a non-integer buffered amount).
TextLens == {4}
\* usage.total_tokens as the provider reports it; never equal to an estimate.
UsageTotals == {25, 100}
IdleWorker == [pc |-> "idle", text_len |-> 0, attempt |-> 0]

Min(a, b) == IF a <= b THEN a ELSE b

\* The largest capacity, refill rate and request of the TokenBucket checked on
\* its own.
MaxCapacity == 3
MaxRate == 2
MaxRequired == 2

\* TokenBucket.__init__ at time t.
TokenBucket(capacity, refill_rate, t) ==
    [capacity |-> capacity, refill_rate |-> refill_rate, tokens |-> capacity, last_refill |-> t]

\* A _refill without the cap: tokens + tokens_to_add.
refill_Uncapped(b, t) ==
    [b EXCEPT !.tokens = b.tokens + (t - b.last_refill) * b.refill_rate,
              !.last_refill = t]

\* TokenBucket._refill
refill(b, t) ==
    [b EXCEPT !.tokens = Min(b.capacity, b.tokens + (t - b.last_refill) * b.refill_rate),
              !.last_refill = t]

\* A consume that takes what is there when the bucket cannot cover the request.
consume_Partial(b, required_tokens, t) ==
    LET r == refill(b, t)
    IN  IF r.tokens >= required_tokens
        THEN [bucket |-> [r EXCEPT !.tokens = r.tokens - required_tokens], ok |-> TRUE]
        ELSE [bucket |-> [r EXCEPT !.tokens = 0], ok |-> FALSE]

\* TokenBucket.consume
consume(b, required_tokens, t) ==
    LET r == refill(b, t)
    IN  IF r.tokens >= required_tokens
        THEN [bucket |-> [r EXCEPT !.tokens = r.tokens - required_tokens], ok |-> TRUE]
        ELSE [bucket |-> r, ok |-> FALSE]

\* A has_capacity that wants more than the required tokens.
has_capacity_Strict(b, required_tokens, t) ==
    LET r == refill(b, t)
    IN  [bucket |-> r, ok |-> r.tokens > required_tokens]

\* TokenBucket.has_capacity
has_capacity(b, required_tokens, t) ==
    LET r == refill(b, t)
    IN  [bucket |-> r, ok |-> r.tokens >= required_tokens]

\* TokenBucket.get_available_tokens
get_available_tokens(b, t) ==
    LET r == refill(b, t)
    IN  [bucket |-> r, value |-> r.tokens]

\* LLMRateLimiter._default_token_estimator: max(1, len(text) // 4) + 30
default_token_estimator(text_len) ==
    (IF text_len \div 4 >= 1 THEN text_len \div 4 ELSE 1) + 30

\* LLMRateLimiter._get_next_daily_reset
get_next_daily_reset(t) == ((t \div DayTicks) + 1) * DayTicks

\* LLMRateLimiter.__init__ at time t.
LLMRateLimiter(config, t) ==
    [daily_requests_used |-> 0,
     daily_tokens_used |-> 0,
     daily_reset_time |-> get_next_daily_reset(t),
     request_bucket |-> TokenBucket(config.request_burst_capacity, config.request_refill_rate, t),
     token_bucket |-> TokenBucket(config.token_burst_capacity, config.token_refill_rate, t)]

\* A _check_daily_reset that zeroes the counters but keeps the old reset time.
check_daily_reset_KeepTime(L, t) ==
    IF t >= L.daily_reset_time
    THEN [L EXCEPT !.daily_requests_used = 0, !.daily_tokens_used = 0]
    ELSE L

\* LLMRateLimiter._check_daily_reset
check_daily_reset(L, t) ==
    IF t >= L.daily_reset_time
    THEN [L EXCEPT !.daily_requests_used = 0,
                   !.daily_tokens_used = 0,
                   !.daily_reset_time = get_next_daily_reset(t)]
    ELSE L

\* int(total_estimated_tokens * (1 + safety_buffer)): int() truncates.
buffered_tokens(total_estimated_tokens) ==
    (total_estimated_tokens * (100 + ratelimitconfig.safety_buffer_pct)) \div 100

Denied(L, reason) ==
    [limiter |-> L, allowed |-> FALSE, reason |-> reason, estimated_tokens |-> 0,
     buffered_tokens |-> 0]

\* A daily request check that lets the request at the limit through.
daily_requests_exhausted_Strict(L) ==
    L.daily_requests_used > ratelimitconfig.daily_request_limit

\* Line 173: if self.daily_requests_used >= self.config.daily_request_limit
daily_requests_exhausted(L) ==
    L.daily_requests_used >= ratelimitconfig.daily_request_limit

\* LLMRateLimiter.can_process_request: the result and the limiter after it.
can_process_request(L0, text_len, estimated_completion_tokens, t) ==
    LET L == check_daily_reset(L0, t)
        prompt_tokens == default_token_estimator(text_len)
        total_estimated_tokens == prompt_tokens + estimated_completion_tokens
        buffered == buffered_tokens(total_estimated_tokens)
        rb == has_capacity(L.request_bucket, 1, t)
        L1 == [L EXCEPT !.request_bucket = rb.bucket]
        tb == has_capacity(L.token_bucket, buffered, t)
        L2 == [L1 EXCEPT !.token_bucket = tb.bucket]
    IN  IF daily_requests_exhausted(L)
        THEN Denied(L, "daily_request_limit_exceeded")
        ELSE IF L.daily_tokens_used + buffered > ratelimitconfig.daily_token_limit
        THEN Denied(L, "daily_token_limit_exceeded")
        ELSE IF ~rb.ok
        THEN Denied(L1, "request_rate_limit_exceeded")
        ELSE IF ~tb.ok
        THEN Denied(L2, "token_rate_limit_exceeded")
        ELSE [limiter |-> L2, allowed |-> TRUE, reason |-> "none",
              estimated_tokens |-> total_estimated_tokens, buffered_tokens |-> buffered]

\* An acquire_tokens that consumes whatever the pre-flight check said.
acquire_tokens_NoCheck(L0, text_len, estimated_completion_tokens, t) ==
    LET check_result == can_process_request(L0, text_len, estimated_completion_tokens, t)
        L == check_result.limiter
        buffered == buffered_tokens(default_token_estimator(text_len) + estimated_completion_tokens)
        request_acquired == consume(L.request_bucket, 1, t)
        token_acquired == consume(L.token_bucket, buffered, t)
    IN  [limiter |-> [L EXCEPT !.request_bucket = request_acquired.bucket,
                               !.token_bucket = token_acquired.bucket],
         value |-> check_result.allowed /\ request_acquired.ok /\ token_acquired.ok]

\* LLMRateLimiter.acquire_tokens: the boolean it returns and the limiter after it.
acquire_tokens(L0, text_len, estimated_completion_tokens, t) ==
    LET check_result == can_process_request(L0, text_len, estimated_completion_tokens, t)
        L == check_result.limiter
        request_acquired == consume(L.request_bucket, 1, t)
        token_acquired == consume(L.token_bucket, check_result.buffered_tokens, t)
    IN  IF ~check_result.allowed
        THEN [limiter |-> L, value |-> FALSE]
        ELSE [limiter |-> [L EXCEPT !.request_bucket = request_acquired.bucket,
                                    !.token_bucket = token_acquired.bucket],
              value |-> request_acquired.ok /\ token_acquired.ok]

\* A record_actual_usage that books the estimate instead of the usage.
record_actual_usage_Estimate(L, actual_usage, text_len) ==
    [L EXCEPT !.daily_requests_used = @ + 1,
              !.daily_tokens_used = @ + default_token_estimator(text_len)]

\* LLMRateLimiter.record_actual_usage (the usage history is analytics only
\* and left out).
record_actual_usage(L, actual_usage, text_len) ==
    [L EXCEPT !.daily_requests_used = @ + 1,
              !.daily_tokens_used = @ + actual_usage.total_tokens]

\* LLMRateLimiter.get_usage_stats
get_usage_stats(L) ==
    [daily_requests_used |-> L.daily_requests_used,
     daily_tokens_used |-> L.daily_tokens_used,
     daily_requests_remaining |->
         IF ratelimitconfig.daily_request_limit - L.daily_requests_used > 0
         THEN ratelimitconfig.daily_request_limit - L.daily_requests_used ELSE 0,
     daily_tokens_remaining |->
         IF ratelimitconfig.daily_token_limit - L.daily_tokens_used > 0
         THEN ratelimitconfig.daily_token_limit - L.daily_tokens_used ELSE 0,
     next_daily_reset |-> L.daily_reset_time]

\* No call of simple_chunk_text under way.
IdleSeg == [pc |-> "idle", text |-> <<>>, max_chars |-> 1, current_pos |-> 0, chunks |-> <<>>,
            spans |-> <<>>]

\* The generate_insights task instances of the model.
MaxRuns == 3
Runs == 1 .. MaxRuns
IdleRun == [pc |-> "queued", userId |-> "u1", insights_results |-> <<>>, existing |-> <<>>,
            enqueued |-> <<>>]
InitInsights ==
    /\ user_insights = [u \in Users |-> <<>>]
    /\ runs = [r \in Runs |-> IdleRun]
    /\ last_merged = [u \in Users |-> [i \in ChunkIdx |-> 0]]

\* The module-level limiter of tasks.py, built at time 0, and no chunk worker
\* running.
InitLimiter ==
    /\ now = 0
    /\ groq_rate_limiter = LLMRateLimiter(ratelimitconfig, 0)
    /\ chunk_workers = [w \in Workers |-> IdleWorker]
    /\ bucket = TokenBucket(MaxCapacity, MaxRate, 0)
    /\ bucket_log = [consumed |-> 0, refilled |-> 0]
    /\ seg = IdleSeg
    /\ InitInsights

(* ----------------------- tasks.py send_email_chunk ---------------------- *)
\* @readpdf_app.task(bind=True, max_retries=3, ...)
max_retries == 3

IdleTask == [pc |-> "idle", user |-> "u1", idx |-> 0, retries |-> 0, result |-> "none",
             saw_sent |-> FALSE, loaded |-> FALSE, called |-> FALSE, ok_sends |-> 0,
             started_after |-> {}, body |-> "none"]

marker_key(t) == <<tasks[t].user, tasks[t].idx>>

\* The tasks whose run has ended (returned, or failed for good).
Finished == {t \in Tasks : tasks[t].pc = "done"}

\* generate_insights enqueues one send_email_chunk per processed chunk.
EnqueueNotify(t, u, i) ==
    /\ tasks[t].pc = "idle"
    /\ tasks' = [tasks EXCEPT ![t] = [IdleTask EXCEPT !.pc = "queued", !.user = u, !.idx = i]]
    /\ UNCHANGED <<email_sent, smtp_sent, storeVars, schedVars, quotaVars, bucketVars, segVars, insightVars>>

\* Lines 430-435: the idempotency check that opens every run of the task.
marker_present_Skipped(k) == FALSE

marker_present(k) == k \in email_sent

NotifyCheck(t) ==
    /\ tasks[t].pc = "queued"
    /\ LET k == marker_key(t)
           prior == {o \in Finished \ {t} : marker_key(o) = k}
           run == [tasks[t] EXCEPT
                     !.saw_sent = \E o \in prior : tasks[o].result = "sent",
                     !.loaded = FALSE, !.called = FALSE, !.body = "none",
                     !.started_after = IF tasks[t].retries = 0 THEN prior ELSE @]
       IN  tasks' = [tasks EXCEPT ![t] =
                        IF marker_present(k)
                        THEN [run EXCEPT !.pc = "done", !.result = "already_sent"]
                        ELSE [run EXCEPT !.pc = "sending"]]
    /\ UNCHANGED <<email_sent, smtp_sent, storeVars, schedVars, quotaVars, bucketVars, segVars, insightVars>>

\* Lines 439-468: the data the message needs; any miss raises inside the try.
load_ok(u, i) ==
    /\ user_chunks[u] # NoData
    /\ i < user_chunks[u].total
    /\ user_chunks[u].email

\* Lines 488-491: raise self.retry(exc=exc); Celery re-runs the task until
\* max_retries retries were used, then the task fails.
retry(rec) ==
    IF rec.retries < max_retries
    THEN [rec EXCEPT !.pc = "queued", !.retries = @ + 1]
    ELSE [rec EXCEPT !.pc = "done", !.result = "failed"]

\* Lines 451-459: what the body carries below "Insights:": of the first stored
\* record with this chunk index its insight, else its error text; nothing
\* when no record of the index is stored.
insight_text(u, i) ==
    LET stored == user_insights[u]
        hits == {k \in 1 .. Len(stored) : stored[k].chunk_index = i}
    IN  IF hits = {} THEN "empty"
        ELSE stored[CHOOSE k \in hits : \A h \in hits : k <= h].kind

\* The marker written whatever the transport answered.
NotifySend_MarkAlways(t, smtp_ok) ==
    /\ tasks[t].pc = "sending"
    /\ LET k == marker_key(t)
           loaded == load_ok(k[1], k[2])
           rec == [tasks[t] EXCEPT !.loaded = TRUE, !.called = loaded,
                                   !.body = IF loaded THEN insight_text(k[1], k[2]) ELSE "none"]
       IN  /\ email_sent' = email_sent \cup {k}
           /\ IF loaded /\ smtp_ok
              THEN /\ smtp_sent' = [smtp_sent EXCEPT ![k] = @ + 1]
                   /\ tasks' = [tasks EXCEPT ![t] = [rec EXCEPT !.pc = "done", !.result = "sent",
                                                                !.ok_sends = @ + 1]]
              ELSE /\ smtp_sent' = smtp_sent
                   /\ tasks' = [tasks EXCEPT ![t] = retry(rec)]
    /\ UNCHANGED <<storeVars, schedVars, quotaVars, bucketVars, segVars, insightVars>>

\* Lines 437-480: load, build the message, server.sendmail. smtp_ok is the
\* transport's answer.
NotifySend(t, smtp_ok) ==
    /\ tasks[t].pc = "sending"
    /\ LET k == marker_key(t)
           loaded == load_ok(k[1], k[2])
           rec == [tasks[t] EXCEPT !.loaded = TRUE, !.called = loaded,
                                   !.body = IF loaded THEN insight_text(k[1], k[2]) ELSE "none"]
       IN  IF loaded /\ smtp_ok
           THEN /\ smtp_sent' = [smtp_sent EXCEPT ![k] = @ + 1]
                /\ tasks' = [tasks EXCEPT ![t] = [rec EXCEPT !.pc = "marking", !.ok_sends = @ + 1]]
           ELSE /\ smtp_sent' = smtp_sent
                /\ tasks' = [tasks EXCEPT ![t] = retry(rec)]
    /\ UNCHANGED <<email_sent, storeVars, schedVars, quotaVars, bucketVars, segVars, insightVars>>

\* Lines 482-486: redis_client.setex(marker_key, 30 days, "1"), return "sent".
NotifyMark(t) ==
    /\ tasks[t].pc = "marking"
    /\ email_sent' = email_sent \cup {marker_key(t)}
    /\ tasks' = [tasks EXCEPT ![t] = [@ EXCEPT !.pc = "done", !.result = "sent"]]
    /\ UNCHANGED <<smtp_sent, storeVars, schedVars, quotaVars, bucketVars, segVars, insightVars>>

\* The chunk sets earlier ingestions can have left in the store.
NotifyStores ==
    [Users -> {NoData,
               [total |-> MaxChunks, email |-> TRUE],
               [total |-> 1, email |-> TRUE],
               [total |-> MaxChunks, email |-> FALSE]}]

InitNotify ==
    /\ user_chunks \in NotifyStores
    /\ user_schedule = [u \in Users |-> NoData]
    /\ user_progress = [u \in Users |-> NoData]
    /\ beat_schedule = EmptyBeat
    /\ email_sent = {}
    /\ tasks = [t \in Tasks |-> IdleTask]
    /\ smtp_sent = [k \in Keys |-> 0]
    /\ firing = [f \in Firings |-> IdleFiring]
    /\ last_dispatch = NoDispatch
    /\ ret = NoReturn
    /\ InitLimiter

NextNotify ==
    \/ \E t \in Tasks, u \in Users, i \in ChunkIdx : EnqueueNotify(t, u, i)
    \/ \E t \in Tasks : NotifyCheck(t)
    \/ \E t \in Tasks, smtp_ok \in BOOLEAN : NotifySend(t, smtp_ok)
    \/ \E t \in Tasks : NotifyMark(t)

SpecNotify == InitNotify /\ [][NextNotify]_vars

(* ------------------------------ models.py ------------------------------- *)
\* class ScheduleType(str, Enum): member name -> value.
ScheduleType ==
    [DAILY |-> "daily", TWICE_DAILY |-> "twice_daily", EVERY_TWO_DAYS |-> "every_two_days",
     MONTHLY |-> "monthly", WEEKLY |-> "weekly", NONE |-> "none"]

ScheduleTypeValues == {ScheduleType[m] : m \in DOMAIN ScheduleType}

\* ScheduleType.<name> raises AttributeError when the enum has no such member.
HasMember(name) == name \in DOMAIN ScheduleType

\* class ProcessingMode(str, Enum)
ProcessingMode ==
    [SCHEDULE_ONLY |-> "schedule_only", IMMEDIATE_AND_SCHEDULE |-> "immediate_and_schedule",
     IMMEDIATE_ONLY |-> "immediate_only"]

\* schedule_time: None, or "HH:MM" as the hour and minute it parses to.
NoTime == [given |-> FALSE, hour |-> 0, minute |-> 0]
HHMM(h, m) == [given |-> TRUE, hour |-> h, minute |-> m]

(* ----------------------- scheduling/validators.py ----------------------- *)
MAX_HOURS_INTERVAL == 24
MIN_HOURS_INTERVAL == 1
MAX_CHUNKS_PER_DELIVERY == 10
MIN_CHUNKS_PER_DELIVERY == 1

Invalid(d, msg) == [ok |-> FALSE, data |-> d, error |-> msg]
Valid(d) == [ok |-> TRUE, data |-> d, error |-> ""]

\* _validate_schedule_time: hour must be 0-23, minute must be 0-59.
validate_schedule_time(tm) ==
    /\ 0 <= tm.hour /\ tm.hour <= 23
    /\ 0 <= tm.minute /\ tm.minute <= 59

\* validate_schedule_data. Every exception raised inside, the AttributeError of
\* a missing enum member included, leaves as InvalidScheduleDataException
\* (except Exception, lines 76-78). hours_interval = 0 stands for a missing one.
validate_schedule_data(d) ==
    IF d.user_id = ""
    THEN Invalid(d, "user_id is required")
    ELSE IF d.total_chunks <= 0
    THEN Invalid(d, "total_chunks must be a positive integer")
    ELSE IF d.schedule_type # "" /\ d.schedule_type \notin ScheduleTypeValues
    THEN Invalid(d, "Invalid schedule_type")
    ELSE IF d.schedule_type = ScheduleType.NONE
    THEN Valid(d)
    ELSE IF d.schedule_time.given /\ ~validate_schedule_time(d.schedule_time)
    THEN Invalid(d, "Invalid time format: hour must be 0-23, minute must be 0-59")
    ELSE IF ~HasMember("EVERY_N_HOURS")
    THEN Invalid(d, "EVERY_N_HOURS")
    ELSE IF /\ d.schedule_type = ScheduleType["EVERY_N_HOURS"]
            /\ d.hours_interval = 0
    THEN Invalid(d, "hours_interval is required for EVERY_N_HOURS schedule")
    ELSE IF /\ d.schedule_type = ScheduleType["EVERY_N_HOURS"]
            /\ ~(MIN_HOURS_INTERVAL <= d.hours_interval /\ d.hours_interval <= MAX_HOURS_INTERVAL)
    THEN Invalid(d, "hours_interval must be between 1 and 24")
    ELSE LET cpd == IF /\ MIN_CHUNKS_PER_DELIVERY <= d.chunks_per_delivery
                       /\ d.chunks_per_delivery <= MAX_CHUNKS_PER_DELIVERY
                    THEN d.chunks_per_delivery ELSE 2
             imm == IF d.immediate_chunks_count < 0 THEN 0
                    ELSE IF d.immediate_chunks_count > d.total_chunks THEN d.total_chunks
                    ELSE d.immediate_chunks_count
         IN  Valid([d EXCEPT !.chunks_per_delivery = cpd, !.immediate_chunks_count = imm])

(* ------------------------ scheduling/scheduler.py ----------------------- *)
\* task_name = f"process_user_chunks_{user_id}"
TaskName(u) == "process_user_chunks_" \o u

\* _create_crontab_schedule: the crontab, or None for a type it does not
\* translate; the elif on ScheduleType.EVERY_N_HOURS raises when the enum has
\* no such member.
create_crontab_schedule(d) ==
    IF d.schedule_type = ScheduleType.DAILY
    THEN [ok |-> TRUE, hour |-> d.schedule_time.hour, minute |-> d.schedule_time.minute,
          every |-> 0]
    ELSE IF HasMember("EVERY_N_HOURS") /\ d.schedule_type = ScheduleType["EVERY_N_HOURS"]
    THEN [ok |-> TRUE, hour |-> 0, minute |-> d.schedule_time.minute, every |-> d.hours_interval]
    ELSE [ok |-> FALSE, hour |-> 0, minute |-> 0, every |-> 0]

\* _add_to_beat_schedule: a prior entry of that name is deleted, then the
\* entry is set.
add_to_beat_schedule(beat, task_name, schedule, user_id, chunks_per_delivery, start_index) ==
    [name \in (DOMAIN beat) \cup {task_name} |->
        IF name = task_name
        THEN [task |-> "server.process_scheduled_chunks", schedule |-> schedule,
              user_id |-> user_id, chunks_per_delivery |-> chunks_per_delivery,
              start_index |-> start_index]
        ELSE beat[name]]

\* _store_schedule_metadata
store_schedule_metadata(d, task_name) ==
    [user_id |-> d.user_id, task_name |-> task_name, schedule_type |-> d.schedule_type,
     schedule_time |-> d.schedule_time, chunks_per_delivery |-> d.chunks_per_delivery,
     start_index |-> d.immediate_chunks_count,
     remaining_chunks |-> d.total_chunks - d.immediate_chunks_count,
     status |-> "active", completed_at |-> FALSE]

\* _create_schedule: [ok, beat, sched]; any exception (a schedule_time that is
\* None cannot be parsed) is caught and gives False.
create_schedule(d) ==
    LET cron == create_crontab_schedule(d)
        task_name == TaskName(d.user_id)
    IN  IF ~d.schedule_time.given \/ ~cron.ok
        THEN [ok |-> FALSE, beat |-> beat_schedule, sched |-> user_schedule]
        ELSE [ok |-> TRUE,
              beat |-> add_to_beat_schedule(beat_schedule, task_name, cron, d.user_id,
                                            d.chunks_per_delivery, d.immediate_chunks_count),
              sched |-> [user_schedule EXCEPT ![d.user_id] = store_schedule_metadata(d, task_name)]]

SetupResult(success, message, remaining) ==
    [success |-> success, message |-> message, remaining_chunks |-> remaining]

\* setup_user_schedule: [result, beat, sched].
setup_user_schedule(user_data) ==
    LET v == validate_schedule_data(user_data)
        d == v.data
        remaining_chunks == d.total_chunks - d.immediate_chunks_count
        same(r) == [result |-> r, beat |-> beat_schedule, sched |-> user_schedule]
    IN  IF ~v.ok
        THEN same(SetupResult(FALSE, "Invalid schedule data", 0))
        ELSE IF d.schedule_type = ScheduleType.NONE
        THEN same(SetupResult(TRUE, "No scheduling required", 0))
        ELSE IF remaining_chunks <= 0
        THEN same(SetupResult(TRUE, "All chunks processed immediately", 0))
        ELSE LET c == create_schedule(d)
             IN  IF c.ok
                 THEN [result |-> SetupResult(TRUE, "Schedule created", remaining_chunks),
                       beat |-> c.beat, sched |-> c.sched]
                 ELSE same(SetupResult(FALSE, "Failed to create schedule", 0))

\* cleanup_user_schedule: [beat, sched, progress] after it.
cleanup_user_schedule(u) ==
    LET sd == user_schedule[u]
    IN  [beat |-> IF sd # NoData /\ sd.task_name \in DOMAIN beat_schedule
                  THEN [name \in (DOMAIN beat_schedule) \ {sd.task_name} |-> beat_schedule[name]]
                  ELSE beat_schedule,
         sched |-> IF sd # NoData
                   THEN [user_schedule EXCEPT ![u] = [sd EXCEPT !.status = "completed",
                                                                !.completed_at = TRUE]]
                   ELSE user_schedule,
         progress |-> [user_progress EXCEPT ![u] = NoData]]

\* The stored progress ignored: every firing starts at start_index.
get_user_processing_state_Fresh(u, start_index) ==
    [current_index |-> start_index, processed_count |-> 0]

\* get_user_processing_state
get_user_processing_state(u, start_index) ==
    IF user_progress[u] # NoData
    THEN [current_index |-> user_progress[u].current_index,
          processed_count |-> user_progress[u].processed_count]
    ELSE [current_index |-> start_index, processed_count |-> 0]

\* Chunk data counted as present whenever the key exists.
has_chunks_KeyOnly(u) == user_chunks[u] # NoData

\* get_user_chunks: None when the key is absent; the caller treats an empty
\* chunk list alike.
has_chunks(u) == user_chunks[u] # NoData /\ user_chunks[u].total > 0

\* The requests setup_user_schedule is to turn into a schedule: a recurring
\* type (daily), a time of day, chunks left after the immediate ones.
recurring_request(d) ==
    /\ d.schedule_type = ScheduleType.DAILY
    /\ d.schedule_time.given /\ validate_schedule_time(d.schedule_time)
    /\ d.total_chunks - d.immediate_chunks_count > 0

(* ------------------- tasks.py create_chunks_and_process ----------------- *)
\* PDFRequest: immediate_chunks_count in 0..2, chunks_per_delivery in 1..5 (the
\* model takes 1 and 2), schedule_type of the enum, schedule_time HH:MM or None.
ImmediateCounts == 0 .. 2
CpdValues == {1, 2}
ScheduleTypeInputs == {"daily", "twice_daily", "none"}
ScheduleTimeInputs == {HHMM(9, 0), NoTime}
ProcessingModes == {ProcessingMode[m] : m \in DOMAIN ProcessingMode}

\* The id of the next task handed to the queue, unlike the one before it.
NextId == 1 - last_dispatch.id

\* Lines 233-239: the batch handed to generate_insights.delay.
immediate_batch(u, n, k) ==
    [by |-> "immediate", user |-> u, lo |-> 0, hi |-> n, id |-> NextId]

\* create_chunks_and_process for a text that segments into n chunks.
Ingest(u, n, email, mode, k, ty, tm, cpd) ==
    LET user_data == [user_id |-> u, total_chunks |-> n, schedule_type |-> ty,
                      schedule_time |-> tm, chunks_per_delivery |-> cpd,
                      immediate_chunks_count |-> k, hours_interval |-> 0]
        immediate == /\ mode \in {ProcessingMode.IMMEDIATE_ONLY, ProcessingMode.IMMEDIATE_AND_SCHEDULE}
                     /\ k > 0
        scheduling == mode \in {ProcessingMode.SCHEDULE_ONLY, ProcessingMode.IMMEDIATE_AND_SCHEDULE}
        s == setup_user_schedule(user_data)
    IN  /\ user_chunks' = [user_chunks EXCEPT ![u] = [total |-> n, email |-> email]]
        /\ last_dispatch' = IF immediate THEN immediate_batch(u, n, k) ELSE last_dispatch
        /\ beat_schedule' = IF scheduling THEN s.beat ELSE beat_schedule
        /\ user_schedule' = IF scheduling THEN s.sched ELSE user_schedule
        /\ ret' = [op |-> "ingest", user |-> u, request |-> user_data,
                   repeated |-> /\ ret.op = "ingest"
                                /\ ret.user = u
                                /\ ret.setup_called
                                /\ recurring_request(ret.request),
                   status |-> "completed", total_chunks |-> n,
                   chunks_processed_immediately |-> IF immediate THEN k ELSE 0,
                   immediate_task |-> immediate,
                   setup_called |-> scheduling,
                   schedule_set |-> IF scheduling THEN s.result
                                    ELSE SetupResult(FALSE, "", 0)]
        /\ UNCHANGED <<user_progress, firing, notifyVars, quotaVars, bucketVars, segVars, insightVars>>

(* -------------------- tasks.py process_scheduled_chunks ----------------- *)
\* What starts a firing: the beat entry of the user's job, or the
\* trigger-scheduled-processing endpoint (main.py), which asks for chunk data.
FiringSources(u) ==
    {[chunks_per_delivery |-> beat_schedule[name].chunks_per_delivery,
      start_index |-> beat_schedule[name].start_index] :
        name \in {TaskName(u)} \cap DOMAIN beat_schedule}
    \cup
    {[chunks_per_delivery |-> c, start_index |-> 0] :
        c \in IF has_chunks(u) THEN CpdValues ELSE {}}

StartFiring(f, u, src) ==
    /\ firing[f].pc = "idle"
    /\ firing' = [firing EXCEPT ![f] = [IdleFiring EXCEPT !.pc = "queued", !.user = u,
                     !.chunks_per_delivery = src.chunks_per_delivery,
                     !.start_index = src.start_index]]
    /\ UNCHANGED <<storeVars, notifyVars, last_dispatch, ret, quotaVars, bucketVars, segVars, insightVars>>

FireReturn(u, status, action, total_processed, queued, remaining) ==
    [op |-> "fire", user |-> u, status |-> status, action |-> action,
     total_processed |-> total_processed, chunks_queued |-> queued, remaining |-> remaining]

\* Lines 353-386: read the chunk data and the progress; without chunk data, or
\* with an empty slice, run cleanup_user_schedule and return.
FireRead(f) ==
    /\ firing[f].pc = "queued"
    /\ LET u == firing[f].user
           progress == get_user_processing_state(u, firing[f].start_index)
           current_index == progress.current_index
           total == IF user_chunks[u] = NoData THEN 0 ELSE user_chunks[u].total
           \* all_chunks[current_index:end_index] is empty when current_index >= end_index
           end_index == Min(current_index + firing[f].chunks_per_delivery, total)
           c == cleanup_user_schedule(u)
       IN  IF ~has_chunks(u) \/ current_index >= end_index
           THEN /\ beat_schedule' = c.beat
                /\ user_schedule' = c.sched
                /\ user_progress' = c.progress
                /\ firing' = [firing EXCEPT ![f] = IdleFiring]
                /\ ret' = IF ~has_chunks(u)
                          THEN FireReturn(u, "user_data_not_found", "schedule_removed", 0, 0, 0)
                          ELSE FireReturn(u, "completed", "schedule_removed",
                                          progress.processed_count, 0, 0)
                /\ UNCHANGED <<user_chunks, notifyVars, last_dispatch, quotaVars, bucketVars, segVars, insightVars>>
           ELSE /\ firing' = [firing EXCEPT ![f] = [@ EXCEPT !.pc = "dispatching",
                                 !.current_index = current_index, !.end_index = end_index,
                                 !.processed_count = progress.processed_count,
                                 !.total = total]]
                /\ UNCHANGED <<storeVars, notifyVars, last_dispatch, ret, quotaVars, bucketVars, segVars, insightVars>>

\* A firing that runs the cancel path itself once its slice reaches the end.
FireWrite_CleanupAtEnd(f) ==
    /\ firing[f].pc = "dispatching"
    /\ LET u == firing[f].user
           lo == firing[f].current_index
           hi == firing[f].end_index
           new_processed_count == firing[f].processed_count + (hi - lo)
           c == cleanup_user_schedule(u)
       IN  /\ last_dispatch' = [by |-> "scheduled", user |-> u, lo |-> lo, hi |-> hi,
                                id |-> NextId]
           /\ user_progress' = IF hi = firing[f].total THEN c.progress
                               ELSE [user_progress EXCEPT ![u] =
                                       [current_index |-> hi,
                                        processed_count |-> new_processed_count,
                                        last_task_id |-> NextId]]
           /\ beat_schedule' = IF hi = firing[f].total THEN c.beat ELSE beat_schedule
           /\ user_schedule' = IF hi = firing[f].total THEN c.sched ELSE user_schedule
           /\ ret' = FireReturn(u, "batch_queued", "none", new_processed_count, hi - lo,
                                firing[f].total - hi)
           /\ firing' = [firing EXCEPT ![f] = IdleFiring]
    /\ UNCHANGED <<user_chunks, notifyVars, quotaVars, bucketVars, segVars, insightVars>>

\* Lines 388-411: hand the slice to generate_insights.delay, then
\* update_user_progress with the new index, the new count and the task id.
FireWrite(f) ==
    /\ firing[f].pc = "dispatching"
    /\ LET u == firing[f].user
           lo == firing[f].current_index
           hi == firing[f].end_index
           new_processed_count == firing[f].processed_count + (hi - lo)
       IN  /\ last_dispatch' = [by |-> "scheduled", user |-> u, lo |-> lo, hi |-> hi,
                                id |-> NextId]
           /\ user_progress' = [user_progress EXCEPT ![u] =
                                   [current_index |-> hi, processed_count |-> new_processed_count,
                                    last_task_id |-> NextId]]
           /\ ret' = FireReturn(u, "batch_queued", "none", new_processed_count, hi - lo,
                                firing[f].total - hi)
           /\ firing' = [firing EXCEPT ![f] = IdleFiring]
    /\ UNCHANGED <<user_chunks, user_schedule, beat_schedule, notifyVars, quotaVars, bucketVars, segVars, insightVars>>

(* --------------------- main.py cancel_user_schedule --------------------- *)
\* A cancel that also revokes the subject's batches in flight.
Cancel_RevokeBatches(u) ==
    /\ LET c == cleanup_user_schedule(u)
       IN  /\ beat_schedule' = c.beat
           /\ user_schedule' = c.sched
           /\ user_progress' = c.progress
    /\ ret' = [op |-> "cancel", user |-> u, success |-> TRUE]
    /\ runs' = [r \in Runs |-> IF runs[r].userId = u /\ runs[r].pc # "done"
                               THEN [runs[r] EXCEPT !.pc = "done", !.insights_results = <<>>]
                               ELSE runs[r]]
    /\ UNCHANGED <<user_chunks, notifyVars, firing, last_dispatch, quotaVars, bucketVars, segVars,
                   user_insights, last_merged>>

\* DELETE /user-schedule/{user_id}: cleanup_user_schedule, which returns True
\* unless the store raised.
Cancel(u) ==
    /\ LET c == cleanup_user_schedule(u)
       IN  /\ beat_schedule' = c.beat
           /\ user_schedule' = c.sched
           /\ user_progress' = c.progress
    /\ ret' = [op |-> "cancel", user |-> u, success |-> TRUE]
    /\ UNCHANGED <<user_chunks, notifyVars, firing, last_dispatch, quotaVars, bucketVars, segVars, insightVars>>

(* --------------- scheduler.py cleanup_expired_data (sweep) -------------- *)
\* cleanup_expired_keys("user_progress:*") deletes every key that matches.
Sweep ==
    /\ user_progress' = [u \in Users |-> NoData]
    /\ ret' = [op |-> "sweep", success |-> TRUE,
               progress_cleaned |-> Cardinality({u \in Users : user_progress[u] # NoData})]
    /\ UNCHANGED <<user_chunks, user_schedule, beat_schedule, notifyVars, firing, last_dispatch, quotaVars, bucketVars, segVars, insightVars>>

InitSched ==
    /\ user_chunks = [u \in Users |-> NoData]
    /\ user_schedule = [u \in Users |-> NoData]
    /\ user_progress = [u \in Users |-> NoData]
    /\ beat_schedule = EmptyBeat
    /\ email_sent = {}
    /\ tasks = [t \in Tasks |-> IdleTask]
    /\ smtp_sent = [k \in Keys |-> 0]
    /\ firing = [f \in Firings |-> IdleFiring]
    /\ last_dispatch = NoDispatch
    /\ ret = NoReturn
    /\ InitLimiter

\* The firings of one subject under ingestions in the default mode.
NextSched ==
    \/ \E u \in Users, n \in 0 .. MaxChunks, k \in {0, 1} :
          Ingest(u, n, TRUE, ProcessingMode.IMMEDIATE_AND_SCHEDULE, k, "daily", HHMM(9, 0), 2)
    \/ \E f \in Firings, u \in Users : \E src \in FiringSources(u) : StartFiring(f, u, src)
    \/ \E f \in Firings : FireRead(f)
    \/ \E f \in Firings : FireWrite(f)
    \/ \E u \in Users : Cancel(u)
    \/ Sweep

SpecSched == InitSched /\ [][NextSched]_vars

\* The same under the scheduling the claims on termination assume: a queued
\* firing is run by a worker, and firings of the subject keep being started.
SpecSchedFair ==
    /\ SpecSched
    /\ WF_vars(\E f \in Firings : FireRead(f) \/ FireWrite(f))
    /\ WF_vars(\E f \in Firings, u \in Users : \E src \in FiringSources(u) : StartFiring(f, u, src))

\* Ingestion over all request shapes, and cancellation.
NextIngest ==
    \/ \E u \in Users, n \in 0 .. MaxChunks, mode \in ProcessingModes,
          k \in ImmediateCounts, ty \in ScheduleTypeInputs, tm \in ScheduleTimeInputs,
          cpd \in CpdValues :
          Ingest(u, n, TRUE, mode, k, ty, tm, cpd)
    \/ \E u \in Users : Cancel(u)

SpecIngest == InitSched /\ [][NextIngest]_vars

(* ---------------- the operations of the rate limiter ------------------ *)
\* Each operation's return flips seq, so that two like returns in a row differ.
NextSeq == 1 - ret.seq

\* time.time() moves on.
Tick ==
    /\ now < MaxTime
    /\ now' = now + 1
    /\ UNCHANGED <<groq_rate_limiter, chunk_workers, storeVars, notifyVars, schedVars, bucketVars, segVars, insightVars>>

\* A call of can_process_request.
CanProcess(text_len, ect) ==
    LET r == can_process_request(groq_rate_limiter, text_len, ect, now)
    IN  /\ groq_rate_limiter' = r.limiter
        /\ ret' = [op |-> "can_process", seq |-> NextSeq, text_len |-> text_len,
                   estimated_completion_tokens |-> ect, allowed |-> r.allowed,
                   reason |-> r.reason, buffered_tokens |-> r.buffered_tokens]
        /\ UNCHANGED <<now, chunk_workers, storeVars, notifyVars, firing, last_dispatch, bucketVars, segVars, insightVars>>

\* A call of acquire_tokens.
Acquire(text_len, ect) ==
    LET r == acquire_tokens(groq_rate_limiter, text_len, ect, now)
    IN  /\ groq_rate_limiter' = r.limiter
        /\ ret' = [op |-> "acquire", seq |-> NextSeq, value |-> r.value]
        /\ UNCHANGED <<now, chunk_workers, storeVars, notifyVars, firing, last_dispatch, bucketVars, segVars, insightVars>>

\* A call of get_usage_stats.
Stats ==
    /\ ret' = [op |-> "stats", seq |-> NextSeq, value |-> get_usage_stats(groq_rate_limiter)]
    /\ UNCHANGED <<now, groq_rate_limiter, chunk_workers, storeVars, notifyVars, firing,
                   last_dispatch, bucketVars, segVars, insightVars>>

\* A call of get_burst_capacity_stats.
BurstStats ==
    LET rb == get_available_tokens(groq_rate_limiter.request_bucket, now)
        tb == get_available_tokens(groq_rate_limiter.token_bucket, now)
    IN  /\ groq_rate_limiter' = [groq_rate_limiter EXCEPT !.request_bucket = rb.bucket,
                                                          !.token_bucket = tb.bucket]
        /\ ret' = [op |-> "burst_stats", seq |-> NextSeq,
                   available_request_tokens |-> rb.value,
                   available_token_capacity |-> tb.value]
        /\ UNCHANGED <<now, chunk_workers, storeVars, notifyVars, firing, last_dispatch, bucketVars, segVars, insightVars>>

(* ----------------- tasks.py generate_insights.process_chunk ------------- *)
ChunkReturn(w, outcome, reason) ==
    [op |-> "process_chunk", seq |-> NextSeq, worker |-> w, outcome |-> outcome,
     reason |-> reason]

\* insights_api/groqApi.py lines 46-70: the provider checks the limiter again
\* (no completion estimate) and then awaits the API; a denial is an
\* HTTPException, which process_chunk turns into an error outcome.
CallProvider(w, L, text_len, attempt) ==
    LET can_process == can_process_request(L, text_len, 0, now)
    IN  /\ groq_rate_limiter' = can_process.limiter
        /\ IF can_process.allowed
           THEN /\ chunk_workers' = [chunk_workers EXCEPT ![w] =
                                       [pc |-> "awaiting", text_len |-> text_len,
                                        attempt |-> attempt]]
                /\ ret' = ChunkReturn(w, "calling", "none")
           ELSE /\ chunk_workers' = [chunk_workers EXCEPT ![w] = IdleWorker]
                /\ ret' = ChunkReturn(w, "error", can_process.reason)

\* A process_chunk that calls the provider whatever the limiter said.
WorkerStart_NoCheck(w, text_len) ==
    /\ chunk_workers[w].pc = "idle"
    /\ CallProvider(w, groq_rate_limiter, text_len, 0)
    /\ UNCHANGED <<now, storeVars, notifyVars, firing, last_dispatch, bucketVars, segVars, insightVars>>

\* tasks.py lines 275-291: the pre-flight check, the acquisition under
\* groq_semaphore and the provider call up to its first suspension; no
\* await on this stretch yields to the event loop.
WorkerStart(w, text_len) ==
    /\ chunk_workers[w].pc = "idle"
    /\ LET check == can_process_request(groq_rate_limiter, text_len,
                                        EstimatedCompletionTokens, now)
           acquired == acquire_tokens(check.limiter, text_len, EstimatedCompletionTokens, now)
       IN  IF ~check.allowed
           THEN /\ groq_rate_limiter' = check.limiter
                /\ ret' = ChunkReturn(w, "rate_limit_hit", check.reason)
                /\ UNCHANGED chunk_workers
           ELSE IF ~acquired.value
           THEN /\ groq_rate_limiter' = acquired.limiter
                /\ ret' = ChunkReturn(w, "acquisition_failed", "none")
                /\ UNCHANGED chunk_workers
           ELSE CallProvider(w, acquired.limiter, text_len, 0)
    /\ UNCHANGED <<now, storeVars, notifyVars, firing, last_dispatch, bucketVars, segVars, insightVars>>

\* A batch that fails fast: an error of one chunk cancels its siblings.
WorkerRespond_FailFast(w, outcome, total_tokens) ==
    /\ chunk_workers[w].pc = "awaiting"
    /\ IF outcome = "usage"
       THEN /\ groq_rate_limiter' = record_actual_usage(groq_rate_limiter,
                                                       [total_tokens |-> total_tokens],
                                                       chunk_workers[w].text_len)
            /\ ret' = [op |-> "record", seq |-> NextSeq, worker |-> w,
                       usage |-> [total_tokens |-> total_tokens],
                       text_len |-> chunk_workers[w].text_len]
            /\ chunk_workers' = [chunk_workers EXCEPT ![w] = IdleWorker]
       ELSE IF outcome = "http_429" /\ chunk_workers[w].attempt < 1
       THEN /\ chunk_workers' = [chunk_workers EXCEPT ![w].pc = "sleeping"]
            /\ UNCHANGED <<groq_rate_limiter, ret>>
       ELSE /\ chunk_workers' = [v \in DOMAIN chunk_workers |-> IdleWorker]
            /\ ret' = ChunkReturn(w, "error", "upstream")
            /\ UNCHANGED groq_rate_limiter
    /\ UNCHANGED <<now, storeVars, notifyVars, firing, last_dispatch, bucketVars, segVars, insightVars>>

\* A process_chunk that sleeps and retries after any failure of its first call.
WorkerRespond_RetryAnyError(w, outcome, total_tokens) ==
    /\ chunk_workers[w].pc = "awaiting"
    /\ IF outcome = "usage"
       THEN /\ groq_rate_limiter' = record_actual_usage(groq_rate_limiter,
                                                       [total_tokens |-> total_tokens],
                                                       chunk_workers[w].text_len)
            /\ ret' = [op |-> "record", seq |-> NextSeq, worker |-> w,
                       usage |-> [total_tokens |-> total_tokens],
                       text_len |-> chunk_workers[w].text_len]
            /\ chunk_workers' = [chunk_workers EXCEPT ![w] = IdleWorker]
       ELSE IF chunk_workers[w].attempt < 1
       THEN /\ chunk_workers' = [chunk_workers EXCEPT ![w].pc = "sleeping"]
            /\ UNCHANGED <<groq_rate_limiter, ret>>
       ELSE /\ chunk_workers' = [chunk_workers EXCEPT ![w] = IdleWorker]
            /\ ret' = ChunkReturn(w, "error", "upstream")
            /\ UNCHANGED groq_rate_limiter
    /\ UNCHANGED <<now, storeVars, notifyVars, firing, last_dispatch, bucketVars, segVars, insightVars>>

\* tasks.py lines 292-302: the provider returns usage, which is recorded, or
\* it raises; an HTTP 429 on the first attempt is slept on and retried.
WorkerRespond(w, outcome, total_tokens) ==
    /\ chunk_workers[w].pc = "awaiting"
    /\ IF outcome = "usage"
       THEN /\ groq_rate_limiter' = record_actual_usage(groq_rate_limiter,
                                                       [total_tokens |-> total_tokens],
                                                       chunk_workers[w].text_len)
            /\ ret' = [op |-> "record", seq |-> NextSeq, worker |-> w,
                       usage |-> [total_tokens |-> total_tokens],
                       text_len |-> chunk_workers[w].text_len]
            /\ chunk_workers' = [chunk_workers EXCEPT ![w] = IdleWorker]
       ELSE IF outcome = "http_429" /\ chunk_workers[w].attempt < 1
       THEN /\ chunk_workers' = [chunk_workers EXCEPT ![w].pc = "sleeping"]
            /\ UNCHANGED <<groq_rate_limiter, ret>>
       ELSE /\ chunk_workers' = [chunk_workers EXCEPT ![w] = IdleWorker]
            /\ ret' = ChunkReturn(w, "error", "upstream")
            /\ UNCHANGED groq_rate_limiter
    /\ UNCHANGED <<now, storeVars, notifyVars, firing, last_dispatch, bucketVars, segVars, insightVars>>

\* tasks.py lines 296-298: after asyncio.sleep the provider is called again.
WorkerRetry(w) ==
    /\ chunk_workers[w].pc = "sleeping"
    /\ CallProvider(w, groq_rate_limiter, chunk_workers[w].text_len,
                    chunk_workers[w].attempt + 1)
    /\ UNCHANGED <<now, storeVars, notifyVars, firing, last_dispatch, bucketVars, segVars, insightVars>>

InitQuota ==
    /\ user_chunks = [u \in Users |-> NoData]
    /\ user_schedule = [u \in Users |-> NoData]
    /\ user_progress = [u \in Users |-> NoData]
    /\ beat_schedule = EmptyBeat
    /\ email_sent = {}
    /\ tasks = [t \in Tasks |-> IdleTask]
    /\ smtp_sent = [k \in Keys |-> 0]
    /\ firing = [f \in Firings |-> IdleFiring]
    /\ last_dispatch = NoDispatch
    /\ ret = [op |-> "none", seq |-> 0]
    /\ InitLimiter

NextQuota ==
    \/ Tick
    \/ \E text_len \in TextLens, ect \in {0, EstimatedCompletionTokens} : CanProcess(text_len, ect)
    \/ \E text_len \in TextLens : Acquire(text_len, EstimatedCompletionTokens)
    \/ Stats
    \/ BurstStats
    \/ \E w \in Workers, text_len \in TextLens : WorkerStart(w, text_len)
    \/ \E w \in Workers, outcome \in {"usage", "http_429", "error"}, total_tokens \in UsageTotals :
          WorkerRespond(w, outcome, total_tokens)
    \/ \E w \in Workers : WorkerRetry(w)

SpecQuota == InitQuota /\ [][NextQuota]_vars

(* ------------- tasks.py generate_insights: one batch of chunks ---------- *)
\* The process_chunk coroutines of one batch: one more than the request
\* bucket's capacity in the model.
BatchWorkers == {1, 2, 3}

\* The limiter as built at import, every coroutine of the batch created and
\* not yet run (asyncio.gather, lines 304-313).
InitBatch ==
    /\ user_chunks = [u \in Users |-> NoData]
    /\ user_schedule = [u \in Users |-> NoData]
    /\ user_progress = [u \in Users |-> NoData]
    /\ beat_schedule = EmptyBeat
    /\ email_sent = {}
    /\ tasks = [t \in Tasks |-> IdleTask]
    /\ smtp_sent = [k \in Keys |-> 0]
    /\ firing = [f \in Firings |-> IdleFiring]
    /\ last_dispatch = NoDispatch
    /\ ret = [op |-> "none", seq |-> 0]
    /\ now = 0
    /\ groq_rate_limiter = LLMRateLimiter(ratelimitconfig, 0)
    /\ chunk_workers = [w \in BatchWorkers |-> IdleWorker]
    /\ bucket = TokenBucket(MaxCapacity, MaxRate, 0)
    /\ bucket_log = [consumed |-> 0, refilled |-> 0]
    /\ seg = IdleSeg
    /\ InitInsights

\* The event loop runs one coroutine up to its next suspension; the clock
\* moves between any two of these stretches.
NextBatch ==
    \/ Tick
    \/ \E w \in BatchWorkers, text_len \in TextLens : WorkerStart(w, text_len)
    \/ \E w \in BatchWorkers, outcome \in {"usage", "http_429", "error"}, total_tokens \in UsageTotals :
          WorkerRespond(w, outcome, total_tokens)
    \/ \E w \in BatchWorkers : WorkerRetry(w)

SpecBatch == InitBatch /\ [][NextBatch]_vars

(* ------------------ RateLimiter.py TokenBucket on its own --------------- *)
\* What a call adds to the history: the tokens the lazy refill put in and the
\* tokens a successful consume took out.
Logged(taken) ==
    [consumed |-> bucket_log.consumed + taken,
     refilled |-> bucket_log.refilled + (refill(bucket, now).tokens - bucket.tokens)]

\* A call of TokenBucket.consume; the lock makes it one step.
BucketConsume(n) ==
    LET r == consume(bucket, n, now)
    IN  /\ bucket' = r.bucket
        /\ bucket_log' = Logged(IF r.ok THEN n ELSE 0)
        /\ ret' = [op |-> "consume", seq |-> NextSeq, required_tokens |-> n, ok |-> r.ok]
        /\ UNCHANGED <<now, groq_rate_limiter, chunk_workers, storeVars, notifyVars, firing,
                       last_dispatch, segVars, insightVars>>

\* A call of TokenBucket.has_capacity.
BucketHasCapacity(n) ==
    LET r == has_capacity(bucket, n, now)
    IN  /\ bucket' = r.bucket
        /\ bucket_log' = Logged(0)
        /\ ret' = [op |-> "has_capacity", seq |-> NextSeq, required_tokens |-> n, ok |-> r.ok]
        /\ UNCHANGED <<now, groq_rate_limiter, chunk_workers, storeVars, notifyVars, firing,
                       last_dispatch, segVars, insightVars>>

\* A call of TokenBucket.get_available_tokens.
BucketGetAvailable ==
    LET r == get_available_tokens(bucket, now)
    IN  /\ bucket' = r.bucket
        /\ bucket_log' = Logged(0)
        /\ ret' = [op |-> "get_available_tokens", seq |-> NextSeq, value |-> r.value]
        /\ UNCHANGED <<now, groq_rate_limiter, chunk_workers, storeVars, notifyVars, firing,
                       last_dispatch, segVars, insightVars>>

\* A bucket of any capacity and refill rate up to the bounds, built at time 0.
InitBucket ==
    /\ user_chunks = [u \in Users |-> NoData]
    /\ user_schedule = [u \in Users |-> NoData]
    /\ user_progress = [u \in Users |-> NoData]
    /\ beat_schedule = EmptyBeat
    /\ email_sent = {}
    /\ tasks = [t \in Tasks |-> IdleTask]
    /\ smtp_sent = [k \in Keys |-> 0]
    /\ firing = [f \in Firings |-> IdleFiring]
    /\ last_dispatch = NoDispatch
    /\ ret = [op |-> "none", seq |-> 0]
    /\ now = 0
    /\ groq_rate_limiter = LLMRateLimiter(ratelimitconfig, 0)
    /\ chunk_workers = [w \in Workers |-> IdleWorker]
    /\ bucket \in {TokenBucket(c, r, 0) : c \in 1 .. MaxCapacity, r \in 1 .. MaxRate}
    /\ bucket_log = [consumed |-> 0, refilled |-> 0]
    /\ seg = IdleSeg
    /\ InitInsights

NextBucket ==
    \/ Tick
    \/ \E n \in 1 .. MaxRequired : BucketConsume(n)
    \/ \E n \in 1 .. MaxRequired : BucketHasCapacity(n)
    \/ BucketGetAvailable

SpecBucket == InitBucket /\ [][NextBucket]_vars

(* ----------------------- tasks.py simple_chunk_text -------------------- *)
\* The longest text and the largest max_chars of the calls checked.
MaxLen == 7
MaxWindow == 6
\* The least distance of a searched cut from current_pos: 100 characters in
\* the source (line 83), scaled to the short texts of the model.
MinSearchOffset == 1

\* A letter, a space and a sentence terminator.
Chars == {"a", " ", "."}
Texts == UNION {[1 .. n -> Chars] : n \in 0 .. MaxLen}
\* What str.strip() removes.
Whitespace == {" ", "\n", "\t"}
SentenceEnders == {".", "!", "?"}
\* '.!?\n ' of line 93.
BreakChars == {".", "!", "?", "\n", " "}

SetMax(S) == CHOOSE x \in S : \A y \in S : y <= x
SetMin(S) == CHOOSE x \in S : \A y \in S : x <= y

\* text[p] and text[a:b] with Python's indices from 0.
CharAt(text, p) == text[p + 1]
Slice(text, a, b) == SubSeq(text, a + 1, b)

\* A strip() that removes punctuation at the edges as well.
strip_Greedy(chunk) ==
    LET keep == {i \in 1 .. Len(chunk) : chunk[i] \notin BreakChars}
    IN  IF keep = {} THEN <<>> ELSE SubSeq(chunk, SetMin(keep), SetMax(keep))

\* str.strip()
strip(chunk) ==
    LET keep == {i \in 1 .. Len(chunk) : chunk[i] \notin Whitespace}
    IN  IF keep = {} THEN <<>> ELSE SubSeq(chunk, SetMin(keep), SetMax(keep))

\* Line 87: text[i-1:i+1] in ['. ', '! ', '? '] or text[i-1:i+1] == '\n\n'
is_sentence_end(text, i) ==
    /\ i >= 1 /\ i < Len(text)
    /\ \/ CharAt(text, i - 1) \in SentenceEnders /\ CharAt(text, i) = " "
       \/ CharAt(text, i - 1) = "\n" /\ CharAt(text, i) = "\n"

\* Line 83: max(current_pos + int(max_chars * 0.8), current_pos + 100)
search_start(current_pos, max_chars) ==
    LET a == current_pos + (max_chars * 8) \div 10
        b == current_pos + MinSearchOffset
    IN  IF a >= b THEN a ELSE b

\* Lines 78-95: the end of the chunk that starts at current_pos. Both loops
\* run i from end_pos down to search_start + 1 and stop at the first hit.
find_end(text, current_pos, max_chars) ==
    LET end_pos == Min(current_pos + max_chars, Len(text))
        searched == (search_start(current_pos, max_chars) + 1) .. end_pos
        sentence == {i \in searched : is_sentence_end(text, i)}
        broken == {i \in searched : CharAt(text, i) \in BreakChars}
    IN  IF end_pos < Len(text)
        THEN IF sentence # {} THEN SetMax(sentence)
             ELSE IF broken # {} THEN SetMax(broken) + 1
             ELSE end_pos
        ELSE end_pos

\* Lines 70-74: a text that fits is returned whole, as it is.
SegmentEnter ==
    /\ seg.pc = "called"
    /\ seg' = IF Len(seg.text) <= seg.max_chars
              THEN [seg EXCEPT !.pc = "done", !.chunks = <<seg.text>>]
              ELSE [seg EXCEPT !.pc = "loop"]
    /\ UNCHANGED <<storeVars, notifyVars, schedVars, quotaVars, bucketVars, insightVars>>

\* Lines 76-101: one turn of the while loop.
SegmentLoop ==
    /\ seg.pc = "loop"
    /\ seg.current_pos < Len(seg.text)
    /\ LET end_pos == find_end(seg.text, seg.current_pos, seg.max_chars)
           chunk == strip(Slice(seg.text, seg.current_pos, end_pos))
       IN  seg' = [seg EXCEPT !.chunks = IF chunk # <<>> THEN Append(@, chunk) ELSE @,
                              !.spans = Append(@, [lo |-> seg.current_pos, hi |-> end_pos]),
                              !.current_pos = end_pos]
    /\ UNCHANGED <<storeVars, notifyVars, schedVars, quotaVars, bucketVars, insightVars>>

\* Line 103: return chunks.
SegmentReturn ==
    /\ seg.pc = "loop"
    /\ seg.current_pos >= Len(seg.text)
    /\ seg' = [seg EXCEPT !.pc = "done"]
    /\ UNCHANGED <<storeVars, notifyVars, schedVars, quotaVars, bucketVars, insightVars>>

\* A call with any text and any max_chars >= 1 up to the bounds.
InitSegment ==
    /\ user_chunks = [u \in Users |-> NoData]
    /\ user_schedule = [u \in Users |-> NoData]
    /\ user_progress = [u \in Users |-> NoData]
    /\ beat_schedule = EmptyBeat
    /\ email_sent = {}
    /\ tasks = [t \in Tasks |-> IdleTask]
    /\ smtp_sent = [k \in Keys |-> 0]
    /\ firing = [f \in Firings |-> IdleFiring]
    /\ last_dispatch = NoDispatch
    /\ ret = NoReturn
    /\ now = 0
    /\ groq_rate_limiter = LLMRateLimiter(ratelimitconfig, 0)
    /\ chunk_workers = [w \in Workers |-> IdleWorker]
    /\ bucket = TokenBucket(MaxCapacity, MaxRate, 0)
    /\ bucket_log = [consumed |-> 0, refilled |-> 0]
    /\ seg \in {[IdleSeg EXCEPT !.pc = "called", !.text = t, !.max_chars = m] :
                   t \in Texts, m \in 1 .. MaxWindow}
    /\ InitInsights

NextSegment ==
    \/ SegmentEnter
    \/ SegmentLoop
    \/ SegmentReturn

SpecSegment == InitSegment /\ [][NextSegment]_vars

(* ------------------- tasks.py generate_insights (merge) ----------------- *)
RECURSIVE SortedSeq(_)
\* [k for k in sorted(keys)]
SortedSeq(keys) ==
    IF keys = {} THEN <<>>
    ELSE LET k == SetMin(keys) IN <<k>> \o SortedSeq(keys \ {k})

\* The slices of chunk indices a caller hands over: consecutive indices in
\* ascending order (chunks[start:end] in process_scheduled_chunks, the whole
\* chunk list in create_chunks_and_process).
ChunkSlices ==
    {[k \in 1 .. (hi - lo + 1) |-> lo + k - 1] : lo \in ChunkIdx, hi \in ChunkIdx} \ {<<>>}

\* {r.get("chunk_index"): r for r in records}: the last record of an index wins.
RecordMap(records) ==
    [i \in {records[k].chunk_index : k \in 1 .. Len(records)} |->
        records[SetMax({k \in 1 .. Len(records) : records[k].chunk_index = i})]]

\* Lines 320-330: existing_map updated with the results, read out in the
\* order of its sorted keys.
merge(existing, insights_results) ==
    LET existing_map == RecordMap(existing)
        results_map == RecordMap(insights_results)
        keys == DOMAIN existing_map \cup DOMAIN results_map
        final == SortedSeq(keys)
    IN  [k \in 1 .. Len(final) |->
            IF final[k] \in DOMAIN results_map THEN results_map[final[k]]
            ELSE existing_map[final[k]]]

\* Lines 268-302: process_chunk returns {"chunk_index", "insight"} when the
\* provider answered and {"chunk_index", "error"} on a denial, a failed
\* acquisition or an upstream error: one outcome per chunk of the batch.
Outcomes(chunks) == [1 .. Len(chunks) -> {"insight", "error"}]

\* Lines 268-320: the task has gathered one result per chunk, in the order of
\* its chunks (asyncio.gather), and reads the stored list.
InsightsRead(r, chunks, outcome) ==
    /\ runs[r].pc = "queued"
    /\ runs' = [runs EXCEPT ![r].pc = "merging",
                            ![r].insights_results =
                                [k \in 1 .. Len(chunks) |->
                                    [chunk_index |-> chunks[k], task_id |-> r, kind |-> outcome[k]]],
                            ![r].existing = user_insights[runs[r].userId]]
    /\ UNCHANGED <<user_insights, last_merged>>
    /\ UNCHANGED <<storeVars, notifyVars, schedVars, quotaVars, bucketVars, segVars>>

\* Lines 321-339: merge, persist, and enqueue one send_email_chunk per result
\* of this invocation.
InsightsWrite(r) ==
    /\ runs[r].pc = "merging"
    /\ LET u == runs[r].userId
           results == runs[r].insights_results
       IN  /\ user_insights' = [user_insights EXCEPT ![u] = merge(runs[r].existing, results)]
           /\ last_merged' = [last_merged EXCEPT ![u] =
                                 [i \in ChunkIdx |->
                                     IF \E k \in 1 .. Len(results) : results[k].chunk_index = i
                                     THEN r ELSE @[i]]]
           /\ runs' = [runs EXCEPT ![r].pc = "done",
                                   ![r].enqueued = [k \in 1 .. Len(results) |-> results[k].chunk_index]]
    /\ UNCHANGED <<storeVars, notifyVars, schedVars, quotaVars, bucketVars, segVars>>

InitMerge ==
    /\ user_chunks = [u \in Users |-> NoData]
    /\ user_schedule = [u \in Users |-> NoData]
    /\ user_progress = [u \in Users |-> NoData]
    /\ beat_schedule = EmptyBeat
    /\ email_sent = {}
    /\ tasks = [t \in Tasks |-> IdleTask]
    /\ smtp_sent = [k \in Keys |-> 0]
    /\ firing = [f \in Firings |-> IdleFiring]
    /\ last_dispatch = NoDispatch
    /\ ret = NoReturn
    /\ InitLimiter

\* The merge never looks at the kind of a record: the batches here are
\* batches of generated insights.
\* The task instances run on the worker pool: one may read the stored list
\* while another is between its read and its write.
NextMerge ==
    \/ \E r \in Runs : \E chunks \in ChunkSlices :
           InsightsRead(r, chunks, [k \in 1 .. Len(chunks) |-> "insight"])
    \/ \E r \in Runs : InsightsWrite(r)

SpecMerge == InitMerge /\ [][NextMerge]_vars

\* The two invocations that run beside a cancel or beside the notifications
\* (the immediate batch and a scheduled batch).
DeliverRuns == {1, 2}

\* The subject's schedule may be cancelled at any time while batches of the
\* subject are running.
NextCancelBatch ==
    \/ \E r \in DeliverRuns : \E chunks \in ChunkSlices :
           InsightsRead(r, chunks, [k \in 1 .. Len(chunks) |-> "insight"])
    \/ \E r \in DeliverRuns : InsightsWrite(r)
    \/ \E u \in Users : Cancel(u)

SpecCancelBatch == InitMerge /\ [][NextCancelBatch]_vars

(* ------------ tasks.py generate_insights to send_email_chunk ------------ *)
\* Lines 335-339 and the broker: a send_email_chunk message that a finished
\* invocation enqueued is picked up by a worker.
InsightsEnqueue(r, t) ==
    /\ runs[r].pc = "done"
    /\ runs[r].enqueued # <<>>
    /\ tasks[t].pc = "idle"
    /\ tasks' = [tasks EXCEPT ![t] = [IdleTask EXCEPT !.pc = "queued", !.user = runs[r].userId,
                                                      !.idx = Head(runs[r].enqueued)]]
    /\ runs' = [runs EXCEPT ![r].enqueued = Tail(@)]
    /\ UNCHANGED <<user_insights, last_merged, email_sent, smtp_sent>>
    /\ UNCHANGED <<storeVars, schedVars, quotaVars, bucketVars, segVars>>

\* create_chunks_and_process has stored the subject's chunks and address
\* (lines 206-223) before any batch is dispatched.
InitDeliver ==
    /\ user_chunks = [u \in Users |-> [total |-> MaxChunks, email |-> TRUE]]
    /\ user_schedule = [u \in Users |-> NoData]
    /\ user_progress = [u \in Users |-> NoData]
    /\ beat_schedule = EmptyBeat
    /\ email_sent = {}
    /\ tasks = [t \in Tasks |-> IdleTask]
    /\ smtp_sent = [k \in Keys |-> 0]
    /\ firing = [f \in Firings |-> IdleFiring]
    /\ last_dispatch = NoDispatch
    /\ ret = NoReturn
    /\ InitLimiter

NextDeliver ==
    \/ \E r \in DeliverRuns : \E chunks \in ChunkSlices : \E outcome \in Outcomes(chunks) :
           InsightsRead(r, chunks, outcome)
    \/ \E r \in DeliverRuns : InsightsWrite(r)
    \/ \E r \in DeliverRuns, t \in Tasks : InsightsEnqueue(r, t)
    \/ \E t \in Tasks : NotifyCheck(t)
    \/ \E t \in Tasks, smtp_ok \in BOOLEAN : NotifySend(t, smtp_ok)
    \/ \E t \in Tasks : NotifyMark(t)

SpecDeliver == InitDeliver /\ [][NextDeliver]_vars

(* ------------------- claims on the notification task ------------------- *)
\* C1: for every (subject_id, chunk_index), over any number of
\* send_email_chunk tasks for that pair, concurrent ones and their retries
\* included, the transport performs at most one successful send.
C1_AtMostOneSend == \A k \in Keys : smtp_sent[k] <= 1

\* C2: when notify is called twice one after the other for the same pair, at
\* most one message is sent; and a call that starts after an earlier call for
\* the pair returned "sent" returns "already sent" without loading the data
\* and without calling the transport.
C2_SecondCallIsNoOp ==
    /\ \A t \in Tasks :
          tasks[t].saw_sent =>
             /\ tasks[t].pc = "done"
             /\ tasks[t].result = "already_sent"
             /\ ~tasks[t].loaded
             /\ ~tasks[t].called
    /\ \A t1, t2 \in Tasks :
          t1 \in tasks[t2].started_after =>
             tasks[t1].ok_sends + tasks[t2].ok_sends <= 1

\* A call that returned "sent", then a later call for the same pair that
\* returned "already_sent".
C2_Witness ==
    \E t1, t2 \in Tasks :
       /\ tasks[t1].pc = "done" /\ tasks[t1].result = "sent"
       /\ t1 \in tasks[t2].started_after
       /\ tasks[t2].saw_sent
       /\ tasks[t2].pc = "done" /\ tasks[t2].result = "already_sent"

\* C3: a Delivery Marker for a pair exists only if a send for that pair has
\* completed successfully; it is never written before the send nor after a
\* failed send.
C3_MarkerOnlyAfterSend ==
    \A k \in email_sent : smtp_sent[k] >= 1

\* A task whose first send failed, whose retry sent, and whose marker is set.
C3_Witness ==
    \E t \in Tasks :
       /\ tasks[t].retries > 0
       /\ tasks[t].result = "sent"
       /\ marker_key(t) \in email_sent
       /\ smtp_sent[marker_key(t)] = 1

(* ---------------- claims on the scheduler and the ingestion ------------- *)
\* C4: calling setup twice for the same subject, each time with a valid
\* recurring request, leaves exactly one registered job for the subject,
\* holding the arguments of the second call.
C4_SetupTwiceOneJob ==
    (/\ ret.op = "ingest"
     /\ ret.setup_called
     /\ ret.repeated
     /\ recurring_request(ret.request))
    => /\ TaskName(ret.user) \in DOMAIN beat_schedule
       /\ Cardinality({name \in DOMAIN beat_schedule :
                          beat_schedule[name].user_id = ret.user}) = 1
       /\ beat_schedule[TaskName(ret.user)].chunks_per_delivery = ret.request.chunks_per_delivery
       /\ beat_schedule[TaskName(ret.user)].start_index = ret.request.immediate_chunks_count

\* C5: setup with schedule type daily, a valid HH:MM time and
\* total_chunks - immediate_chunks_count > 0 returns success, registers one
\* recurring job named from the subject id, and persists Schedule Metadata
\* with status active and remaining_chunks = total_chunks - immediate_chunks_count.
C5_SetupRegistersJob ==
    (/\ ret.op = "ingest"
     /\ ret.setup_called
     /\ recurring_request(ret.request))
    => /\ ret.schedule_set.success
       /\ TaskName(ret.user) \in DOMAIN beat_schedule
       /\ user_schedule[ret.user] # NoData
       /\ user_schedule[ret.user].status = "active"
       /\ user_schedule[ret.user].remaining_chunks =
             ret.request.total_chunks - ret.request.immediate_chunks_count

LastSliceStep(f) ==
    /\ firing[f].pc = "dispatching"
    /\ firing'[f].pc = "idle"
    /\ firing[f].end_index = firing[f].total

C8_ImmediateBatchIsFirstK ==
    (/\ ret.op = "ingest"
     /\ ret.immediate_task)
    => /\ last_dispatch.by = "immediate"
       /\ last_dispatch.lo = 0
       /\ last_dispatch.hi = Min(ret.request.immediate_chunks_count, ret.total_chunks)

(* --------------------- claims on the rate limiter ----------------------- *)
\* C9: an acquire_tokens call made while daily_requests_used >=
\* daily_request_limit, the daily reset time not yet reached, returns false
\* and leaves both buckets exactly as they were.
C9_AcquireDeniedAtDailyRequestLimit ==
    [][(/\ ret'.op = "acquire"
        /\ ret'.seq # ret.seq
        /\ groq_rate_limiter.daily_requests_used >= ratelimitconfig.daily_request_limit
        /\ now < groq_rate_limiter.daily_reset_time)
       => /\ ret'.value = FALSE
          /\ groq_rate_limiter'.request_bucket = groq_rate_limiter.request_bucket
          /\ groq_rate_limiter'.token_bucket = groq_rate_limiter.token_bucket]_vars

\* acquire_tokens has just returned false with the daily requests used up
\* and the day not over (a call that had reset the counters would have left
\* them at 0).
C9_Witness ==
    /\ ret.op = "acquire"
    /\ ret.value = FALSE
    /\ groq_rate_limiter.daily_requests_used >= ratelimitconfig.daily_request_limit
    /\ now < groq_rate_limiter.daily_reset_time

\* C10: the daily request and token counters grow only in a
\* record_actual_usage step, there by exactly 1 and by exactly the
\* total_tokens the provider reported; can_process, acquire, stats and
\* burst_stats steps never raise them.
C10_CountersGrowOnlyInRecord ==
    [][LET L == groq_rate_limiter
           M == groq_rate_limiter'
           recorded == ret'.op = "record" /\ ret'.seq # ret.seq
       IN  /\ (\/ M.daily_requests_used > L.daily_requests_used
               \/ M.daily_tokens_used > L.daily_tokens_used) => recorded
           /\ recorded =>
                 /\ M.daily_requests_used = L.daily_requests_used + 1
                 /\ M.daily_tokens_used = L.daily_tokens_used + ret'.usage.total_tokens
           /\ (/\ ret'.seq # ret.seq
               /\ ret'.op \in {"can_process", "acquire", "stats", "burst_stats"}) =>
                 /\ M.daily_requests_used <= L.daily_requests_used
                 /\ M.daily_tokens_used <= L.daily_tokens_used]_vars

\* Two usages have been recorded within the day, the last one just now.
C10_Witness ==
    /\ ret.op = "record"
    /\ groq_rate_limiter.daily_requests_used = 2
    /\ groq_rate_limiter.daily_tokens_used > ret.usage.total_tokens

\* The steps that run _check_daily_reset: can_process_request, acquire_tokens
\* and the start or retry of a chunk worker.
ChecksReset ==
    /\ ret'.seq # ret.seq
    /\ \/ ret'.op \in {"can_process", "acquire"}
       \/ ret'.op = "process_chunk" /\ ret'.reason # "upstream"

\* C11: the daily counters are reset once per day boundary: a step lowers a
\* counter or moves the reset time only when the reset time has been reached,
\* it then zeroes both counters and moves the reset time to the next boundary
\* after now, so that no later caller resets for the same boundary (and no
\* usage recorded after the reset is wiped before the next boundary); every
\* caller that checks leaves no reached boundary pending.
C11_ResetOncePerBoundary ==
    [][LET L == groq_rate_limiter
           M == groq_rate_limiter'
       IN  /\ (\/ M.daily_reset_time # L.daily_reset_time
               \/ M.daily_requests_used < L.daily_requests_used
               \/ M.daily_tokens_used < L.daily_tokens_used)
              => /\ ChecksReset
                 /\ now >= L.daily_reset_time
                 /\ M.daily_requests_used = 0
                 /\ M.daily_tokens_used = 0
                 /\ M.daily_reset_time > now
                 /\ M.daily_reset_time = get_next_daily_reset(now)
           /\ ChecksReset => now < M.daily_reset_time
           /\ (ChecksReset /\ now < L.daily_reset_time)
              => /\ M.daily_requests_used = L.daily_requests_used
                 /\ M.daily_tokens_used = L.daily_tokens_used]_vars

\* After the first day boundary a usage was recorded, and a caller that
\* checked the reset after that has left it in place.
C11_Witness ==
    /\ ret.op \in {"can_process", "acquire"}
    /\ now >= DayTicks
    /\ groq_rate_limiter.daily_reset_time > DayTicks
    /\ groq_rate_limiter.daily_requests_used >= 1

\* C12: with chunk workers running concurrently under the limiter, the number
\* of requests recorded within one day never exceeds daily_request_limit.
C12_DailyRequestsWithinLimit ==
    groq_rate_limiter.daily_requests_used <= ratelimitconfig.daily_request_limit

\* C13: can_process_request allows a request iff, after the lazy daily reset
\* and the lazy refill, the daily requests are below the cap, the daily
\* tokens plus the buffered amount do not exceed the daily token cap, the
\* request bucket holds at least 1 and the token bucket at least the buffered
\* amount; a denial carries the reason of the first check that fails, in
\* this order.
C13_CanProcessDecision ==
    [][(ret'.op = "can_process" /\ ret'.seq # ret.seq) =>
          LET L == groq_rate_limiter
              passed == now >= L.daily_reset_time
              requests_used == IF passed THEN 0 ELSE L.daily_requests_used
              tokens_used == IF passed THEN 0 ELSE L.daily_tokens_used
              buffered == buffered_tokens(default_token_estimator(ret'.text_len)
                                          + ret'.estimated_completion_tokens)
              request_level == Min(L.request_bucket.capacity,
                                   L.request_bucket.tokens
                                   + (now - L.request_bucket.last_refill)
                                     * L.request_bucket.refill_rate)
              token_level == Min(L.token_bucket.capacity,
                                 L.token_bucket.tokens
                                 + (now - L.token_bucket.last_refill)
                                   * L.token_bucket.refill_rate)
              requests_ok == requests_used < ratelimitconfig.daily_request_limit
              tokens_ok == tokens_used + buffered <= ratelimitconfig.daily_token_limit
              request_rate_ok == request_level >= 1
              token_rate_ok == token_level >= buffered
          IN  /\ ret'.allowed <=> (requests_ok /\ tokens_ok /\ request_rate_ok /\ token_rate_ok)
              /\ ret'.reason = IF ~requests_ok THEN "daily_request_limit_exceeded"
                               ELSE IF ~tokens_ok THEN "daily_token_limit_exceeded"
                               ELSE IF ~request_rate_ok THEN "request_rate_limit_exceeded"
                               ELSE IF ~token_rate_ok THEN "token_rate_limit_exceeded"
                               ELSE "none"
              /\ ret'.allowed => ret'.buffered_tokens = buffered]_vars

\* can_process_request has just denied for the daily token cap while the
\* request bucket was empty as well: the earlier check gives the reason.
C13_Witness ==
    /\ ret.op = "can_process"
    /\ ret.reason = "daily_token_limit_exceeded"
    /\ refill(groq_rate_limiter.request_bucket, now).tokens < 1

(* ----------------------- claims on the token bucket -------------------- *)
\* The tokens a call finds after the lazy refill.
Available == Min(bucket.capacity, bucket.tokens + (now - bucket.last_refill) * bucket.refill_rate)

\* C14: consume(n) succeeds iff, after the lazy refill, the bucket holds at
\* least n; a success takes exactly n from the refilled level, a failure
\* leaves the refilled level as it is.
C14_ConsumeExact ==
    [][(ret'.op = "consume" /\ ret'.seq # ret.seq) =>
          /\ ret'.ok <=> Available >= ret'.required_tokens
          /\ ret'.ok => bucket'.tokens = Available - ret'.required_tokens
          /\ ~ret'.ok => bucket'.tokens = Available]_vars

\* A consume has just failed on a bucket that was not empty.
C14_Witness ==
    /\ ret.op = "consume"
    /\ ~ret.ok
    /\ bucket.tokens > 0
    /\ bucket_log.consumed > 0

\* C15: under any order of has_capacity, consume and get_available_tokens
\* calls and any time between them, 0 <= tokens <= capacity, and the tokens
\* consumed never exceed the initial capacity plus the tokens refilled.
C15_BucketBounds ==
    /\ 0 <= bucket.tokens
    /\ bucket.tokens <= bucket.capacity
    /\ bucket_log.consumed <= bucket.capacity + bucket_log.refilled
    /\ bucket_log.consumed + bucket.tokens = bucket.capacity + bucket_log.refilled

\* The bucket was emptied, refilled over time and consumed from again.
C15_Witness ==
    /\ bucket_log.consumed > bucket.capacity
    /\ bucket_log.refilled > 0
    /\ bucket.tokens < bucket.capacity

(* ------------------------ claims on the segmenter ----------------------- *)
RECURSIVE Flatten(_)
Flatten(chunks) == IF chunks = <<>> THEN <<>> ELSE Head(chunks) \o Flatten(Tail(chunks))

NonWhitespace(text) == SelectSeq(text, LAMBDA c : c \notin Whitespace)

\* C16: for a text longer than max_chars the chunks come from consecutive,
\* non-overlapping stretches of the text that cover it from start to end, and
\* the chunks put together hold exactly the text's non-whitespace characters,
\* in order.
C16_ChunksReconstructText ==
    (seg.pc = "done" /\ Len(seg.text) > seg.max_chars) =>
        /\ seg.spans # <<>>
        /\ seg.spans[1].lo = 0
        /\ seg.spans[Len(seg.spans)].hi = Len(seg.text)
        /\ \A k \in 1 .. Len(seg.spans) : seg.spans[k].lo < seg.spans[k].hi
        /\ \A k \in 1 .. (Len(seg.spans) - 1) : seg.spans[k].hi = seg.spans[k + 1].lo
        /\ NonWhitespace(Flatten(seg.chunks)) = NonWhitespace(seg.text)

\* A call has returned several chunks, one of them trimmed at its edge.
C16_Witness ==
    /\ seg.pc = "done"
    /\ Len(seg.text) > seg.max_chars
    /\ Len(seg.chunks) >= 2
    /\ Len(Flatten(seg.chunks)) < Len(seg.text)

\* The chunk holds a run of more than max_chars characters without a break
\* character.
HasLongRun(chunk, max_chars) ==
    \E a \in 1 .. Len(chunk) : \E b \in a .. Len(chunk) :
        /\ b - a + 1 > max_chars
        /\ \A i \in a .. b : chunk[i] \notin BreakChars

\* C17: no returned chunk is longer than max_chars, unless it holds a single
\* run without break characters that is itself longer than max_chars.
C17_ChunkWithinMaxChars ==
    seg.pc = "done" =>
        \A k \in 1 .. Len(seg.chunks) :
            \/ Len(seg.chunks[k]) <= seg.max_chars
            \/ HasLongRun(seg.chunks[k], seg.max_chars)

\* C18: every string in the returned sequence is non-empty, for every text
\* (the empty and the whitespace-only ones included) and every max_chars >= 1.
C18_ChunksNonEmpty ==
    seg.pc = "done" => \A k \in 1 .. Len(seg.chunks) : seg.chunks[k] # <<>>

(* ------------------ claims on the merged insight set -------------------- *)
\* C19: after any invocations of generate_insights for a subject the stored
\* list holds at most one record per chunk index, in ascending order of chunk
\* index, and the record of an index is the one of the latest merge that
\* processed that index.
C19_MergedSetLatestPerIndex ==
    \A u \in Users :
        LET stored == user_insights[u]
        IN  /\ \A j \in 1 .. Len(stored) : \A k \in 1 .. Len(stored) :
                    j < k => stored[j].chunk_index < stored[k].chunk_index
            /\ \A k \in 1 .. Len(stored) :
                    stored[k].task_id = last_merged[u][stored[k].chunk_index]

(* ------------------- claims on the schedule metadata -------------------- *)
\* The status of the subject's Schedule Metadata in a store, "none" when the
\* key user_schedule:{user_id} is absent.
StatusOf(sched, u) == IF sched[u] = NoData THEN "none" ELSE sched[u].status

C21_ProgressNeverDecreases ==
    [][\A u \in Users :
          (user_progress[u] # NoData /\ user_progress'[u] # NoData)
          => /\ user_progress'[u].current_index >= user_progress[u].current_index
             /\ user_progress'[u].processed_count >= user_progress[u].processed_count]_vars

\* C22: a cancel for a subject without Schedule Metadata of status active
\* returns false and changes neither the job registration nor the metadata.
C22_CancelWithoutScheduleIsRefused ==
    [][\A u \in Users :
          (Cancel(u) /\ StatusOf(user_schedule, u) # "active")
          => /\ ret'.success = FALSE
             /\ UNCHANGED <<beat_schedule, user_schedule>>]_vars

C24_FiringsDoNotOverlap ==
    \A f \in Firings : \A g \in Firings :
        (f # g /\ firing[f].pc = "dispatching" /\ firing[g].pc = "dispatching")
        => firing[f].user # firing[g].user

(* ------------------- claims on the delivery pipeline ------------------- *)
\* The chunk workers that have a generation call in flight.
InFlight == {w \in DOMAIN chunk_workers : chunk_workers[w].pc = "awaiting"}

\* C25: at every moment at most request_burst_capacity chunk workers have an
\* external generation call in flight.
C25_InFlightWithinBurstCapacity ==
    Cardinality(InFlight) <= ratelimitconfig.request_burst_capacity

(* ----------------------- claims on the validator ------------------------ *)
\* C26: validate_schedule_data accepts a request exactly when its fields are
\* valid and its schedule type is one of none, daily, twice-daily,
\* every-N-hours, every-two-days, weekly, monthly, every-N-hours with an
\* interval in [1,24]; any other request fails with InvalidScheduleData.
C26_ValidateAcceptsEnumeratedTypes ==
    (ret.op = "ingest" /\ ret.setup_called)
    => LET d == ret.request
       IN  validate_schedule_data(d).ok
           <=> /\ d.user_id # "" /\ d.total_chunks > 0
               /\ d.schedule_type \in {"none", "daily", "twice_daily", "every_n_hours",
                                        "every_two_days", "weekly", "monthly"}
               /\ d.schedule_type # "none" /\ d.schedule_time.given
                      => validate_schedule_time(d.schedule_time)
               /\ d.schedule_type = "every_n_hours"
                      => (MIN_HOURS_INTERVAL <= d.hours_interval
                          /\ d.hours_interval <= MAX_HOURS_INTERVAL)

(* ------------------ claims on a firing without chunk data --------------- *)
\* C27: a firing that finds the subject's chunk data missing or empty hands
\* nothing to the Delivery Pipeline, leaves the subject's job deregistered and
\* existing metadata marked completed, deletes the Progress State, and returns
\* status user_data_not_found with action schedule_removed.
C27_FiringWithoutChunksCancels ==
    [][\A f \in Firings :
          (/\ FireRead(f)
           /\ \/ user_chunks[firing[f].user] = NoData
              \/ user_chunks[firing[f].user].total = 0)
          => /\ last_dispatch' = last_dispatch
             /\ firing'[f] = IdleFiring
             /\ TaskName(firing[f].user) \notin DOMAIN beat_schedule'
             /\ StatusOf(user_schedule, firing[f].user) # "none"
                    => StatusOf(user_schedule', firing[f].user) = "completed"
             /\ user_progress'[firing[f].user] = NoData
             /\ ret'.op = "fire"
             /\ ret'.status = "user_data_not_found"
             /\ ret'.action = "schedule_removed"]_vars

\* A firing has returned user_data_not_found for a subject whose stored chunk
\* list is empty.
C27_Witness ==
    /\ ret.op = "fire"
    /\ ret.status = "user_data_not_found"
    /\ user_chunks[ret.user] # NoData
    /\ user_chunks[ret.user].total = 0

(* ------------------ claims on the chunks of a batch --------------------- *)
\* C28: whatever happens to a chunk (quota denial, failed acquisition,
\* upstream error, success), the step that ends its coroutine returns one
\* outcome record for that chunk and leaves every sibling coroutine where it
\* was; no outcome but a record ends a coroutine.
C28_EveryChunkReturnsARecord ==
    [][\A w \in DOMAIN chunk_workers :
          (\/ chunk_workers[w].pc # "idle" /\ chunk_workers'[w].pc = "idle"
           \/ /\ chunk_workers[w].pc = "idle" /\ chunk_workers'[w].pc = "idle"
              /\ ret'.seq # ret.seq /\ ret'.worker = w)
          => /\ ret'.seq # ret.seq
             /\ ret'.worker = w
             /\ \/ ret'.op = "record"
                \/ /\ ret'.op = "process_chunk"
                   /\ ret'.outcome \in {"rate_limit_hit", "acquisition_failed", "error"}
             /\ \A v \in DOMAIN chunk_workers \ {w} : chunk_workers'[v] = chunk_workers[v]]_vars

\* One chunk has ended with an upstream error while a sibling's call is still
\* in flight.
C28_Witness ==
    /\ ret.op = "process_chunk"
    /\ ret.outcome = "error"
    /\ ret.reason = "upstream"
    /\ \E v \in DOMAIN chunk_workers \ {ret.worker} : chunk_workers[v].pc = "awaiting"

\* C29: the provider is called at most twice for a chunk: a first call, and a
\* second one only after the first failed with HTTP 429; any other failure of
\* a call, and a 429 on the second call, end the chunk with an error record.
C29_AtMostOneRetryAfter429 ==
    [][\A w \in DOMAIN chunk_workers :
          /\ chunk_workers[w].attempt \in {0, 1}
          /\ (chunk_workers'[w].pc = "awaiting" /\ chunk_workers[w].pc # "awaiting")
             => \/ chunk_workers[w].pc = "idle" /\ chunk_workers'[w].attempt = 0
                \/ chunk_workers[w].pc = "sleeping" /\ chunk_workers'[w].attempt = 1
          /\ (chunk_workers'[w].pc = "sleeping" /\ chunk_workers[w].pc # "sleeping")
             => /\ chunk_workers[w].pc = "awaiting"
                /\ chunk_workers[w].attempt = 0
                /\ \E t \in UsageTotals : WorkerRespond(w, "http_429", t)
          /\ (\/ \E t \in UsageTotals : WorkerRespond(w, "error", t)
              \/ chunk_workers[w].attempt = 1
                     /\ \E t \in UsageTotals : WorkerRespond(w, "http_429", t))
             => /\ chunk_workers'[w].pc = "idle"
                /\ ret'.op = "process_chunk" /\ ret'.worker = w
                /\ ret'.outcome = "error"]_vars

\* The second call for a chunk is in flight.
C29_Witness ==
    \E w \in DOMAIN chunk_workers :
        chunk_workers[w].pc = "awaiting" /\ chunk_workers[w].attempt = 1

\* C30: a chunk's first provider call starts only in a step in which
\* can_process_request allowed the chunk and acquire_tokens then succeeded; a
\* chunk denied at either step gets an error record in that step, with no
\* provider call and no later attempt.
C30_CallOnlyAfterCheckAndAcquire ==
    [][\A w \in DOMAIN chunk_workers :
          (chunk_workers[w].pc = "idle" /\ ret'.seq # ret.seq /\ ret'.worker = w)
          => \E text_len \in TextLens :
                LET check == can_process_request(groq_rate_limiter, text_len,
                                                 EstimatedCompletionTokens, now)
                    acquired == acquire_tokens(check.limiter, text_len,
                                               EstimatedCompletionTokens, now)
                IN  /\ chunk_workers'[w].pc = "awaiting"
                       => check.allowed /\ acquired.value
                    /\ ~check.allowed
                       => /\ chunk_workers'[w] = IdleWorker
                          /\ ret'.outcome = "rate_limit_hit"
                          /\ ret'.reason = check.reason
                    /\ (check.allowed /\ ~acquired.value)
                       => /\ chunk_workers'[w] = IdleWorker
                          /\ ret'.outcome = "acquisition_failed"]_vars

\* A chunk has been refused by the pre-flight check while a sibling's call is
\* in flight.
C30_Witness ==
    /\ ret.op = "process_chunk"
    /\ ret.outcome = "rate_limit_hit"
    /\ chunk_workers[ret.worker].pc = "idle"
    /\ \E v \in DOMAIN chunk_workers \ {ret.worker} : chunk_workers[v].pc = "awaiting"

(* ---------------------- claims on a firing's slice ---------------------- *)
\* C31: a firing with a non-empty slice hands exactly the chunks with indices
\* [current_index, min(current_index + chunks_per_delivery, total_chunks)) to
\* the Delivery Pipeline and persists Progress State with current_index = end,
\* processed_count raised by the size of the slice and last_task_id = the id of
\* the batch it dispatched.
C31_FiringDispatchesSliceAndPersists ==
    [][\A f \in Firings :
          (firing[f].pc = "dispatching" /\ firing'[f].pc = "idle")
          => LET u == firing[f].user
                 lo == firing[f].current_index
                 hi == Min(lo + firing[f].chunks_per_delivery, firing[f].total)
             IN  /\ lo < hi
                 /\ last_dispatch'.by = "scheduled"
                 /\ last_dispatch'.user = u
                 /\ last_dispatch'.lo = lo
                 /\ last_dispatch'.hi = hi
                 /\ last_dispatch'.id # last_dispatch.id
                 /\ user_progress'[u] =
                        [current_index |-> hi,
                         processed_count |-> firing[f].processed_count + (hi - lo),
                         last_task_id |-> last_dispatch'.id]]_vars

\* A firing that continued from stored progress has dispatched a slice and
\* persisted its end.
C31_Witness ==
    /\ ret.op = "fire"
    /\ ret.status = "batch_queued"
    /\ last_dispatch.by = "scheduled"
    /\ last_dispatch.lo > 0
    /\ user_progress[ret.user] # NoData
    /\ user_progress[ret.user].current_index = last_dispatch.hi
    /\ user_progress[ret.user].last_task_id = last_dispatch.id

(* ------------------ claims on a cancel during a batch ------------------- *)
\* C32: a cancel leaves the subject's batches in flight as they are, and a
\* batch that persists its merge after the cancel has every one of its outcome
\* records in the persisted insight set.
C32_CancelDoesNotInterruptBatch ==
    [][/\ \A u \in Users : (ret'.op = "cancel" /\ (ret' # ret \/ Cancel(u)))
                            => UNCHANGED <<runs, user_insights>>
       /\ \A r \in Runs :
              (/\ ret.op = "cancel" /\ ret.user = runs[r].userId
               /\ runs[r].pc = "merging" /\ runs'[r].pc = "done")
              => /\ runs[r].insights_results # <<>>
                 /\ \A k \in 1 .. Len(runs[r].insights_results) :
                        \E j \in 1 .. Len(user_insights'[runs[r].userId]) :
                            user_insights'[runs[r].userId][j] = runs[r].insights_results[k]]_vars

\* The subject's schedule has been cancelled and a batch of the subject has
\* gathered its results and not yet persisted them.
C32_Witness ==
    /\ ret.op = "cancel"
    /\ \E r \in Runs : runs[r].pc = "merging" /\ runs[r].userId = ret.user

(* -------------------- claims on the buffered amount -------------------- *)
\* C33: the buffered amount of an allowed can_process_request is the ceiling
\* of (estimate(text) + estimated_completion_tokens) * (1 + safety_buffer):
\* the least integer that is not below the product.
C33_BufferedIsCeiling ==
    (ret.op = "can_process" /\ ret.allowed)
    => LET total == default_token_estimator(ret.text_len) + ret.estimated_completion_tokens
           scaled == total * (100 + ratelimitconfig.safety_buffer_pct)
       IN  /\ ret.buffered_tokens * 100 >= scaled
           /\ (ret.buffered_tokens - 1) * 100 < scaled

C35_PersistedIndexStays ==
    [][\A u \in Users :
          \A j \in 1 .. Len(user_insights[u]) :
              \E k \in 1 .. Len(user_insights'[u]) :
                  user_insights'[u][k].chunk_index = user_insights[u][j].chunk_index]_vars

(* ---------------- claims on what a notification seals ------------------ *)
\* C36: a Delivery Marker for (subject, chunk_index) is written only by a
\* notification whose body carried a generated insight for the chunk, and a
\* notification that finds the chunk sealed comes after one for the same pair
\* that carried a generated insight.
C36_MarkerOnlyWithInsight ==
    [][\A t \in Tasks :
          /\ (tasks[t].pc = "marking" /\ tasks'[t].pc = "done")
             => tasks[t].body = "insight"
          /\ (tasks[t].pc = "queued" /\ tasks'[t].result = "already_sent")
             => \E o \in Finished \ {t} :
                    /\ marker_key(o) = marker_key(t)
                    /\ tasks[o].result = "sent"
                    /\ tasks[o].body = "insight"]_vars

(* ------------------ claims on an acquire that fails -------------------- *)
\* C37: an acquire_tokens call that returns false leaves the request bucket
\* and the token bucket with the token counts they had before the call, the
\* time-based refill apart: it takes nothing from one bucket while failing on
\* the other.
C37_FailedAcquireConsumesNothing ==
    [][(ret'.op = "acquire" /\ ret'.seq # ret.seq /\ ret'.value = FALSE)
       => /\ refill(groq_rate_limiter'.request_bucket, now).tokens
                = refill(groq_rate_limiter.request_bucket, now).tokens
          /\ refill(groq_rate_limiter'.token_bucket, now).tokens
                = refill(groq_rate_limiter.token_bucket, now).tokens]_vars

\* acquire_tokens has just returned false on the token bucket alone: the
\* daily limits leave room and the request bucket holds a token.
C37_Witness ==
    LET buffered == buffered_tokens(default_token_estimator(4) + EstimatedCompletionTokens)
    IN  /\ ret.op = "acquire"
        /\ ret.value = FALSE
        /\ now < groq_rate_limiter.daily_reset_time
        /\ ~daily_requests_exhausted(groq_rate_limiter)
        /\ groq_rate_limiter.daily_tokens_used + buffered <= ratelimitconfig.daily_token_limit
        /\ refill(groq_rate_limiter.request_bucket, now).tokens >= 1
        /\ refill(groq_rate_limiter.token_bucket, now).tokens < buffered

C39_RunningFiringDoesNotRecreateProgress ==
    [][\A f \in Firings :
          (/\ FireWrite(f)
           /\ ret.op = "cancel"
           /\ ret.user = firing[f].user
           /\ user_progress[firing[f].user] = NoData
           /\ firing[f].current_index # firing[f].start_index)
          => user_progress'[firing[f].user] = NoData]_vars

(* ------------- claims on the start of a replaced schedule -------------- *)
\* C40: after a new ingestion with setup has replaced the subject's chunk set
\* and schedule, the first firing that reads the subject's state starts at
\* the start index it was given (immediate_chunks_count for the firings of the
\* job the setup registered) and dispatches from there: Progress State left
\* over from the schedule before never determines where it starts.
C40_ReplacedScheduleStartsAtStartIndex ==
    [][\A f \in Firings :
          (/\ FireRead(f)
           /\ ret.op = "ingest"
           /\ ret.user = firing[f].user
           /\ ret.setup_called
           /\ has_chunks(firing[f].user)
           /\ firing[f].start_index < user_chunks[firing[f].user].total)
          => /\ firing'[f].pc = "dispatching"
             /\ firing'[f].current_index = firing[f].start_index]_vars

====
